---- MODULE Spec2Model ----
(***************************************************************************)
(* Model of the RAG_education frontend session controllers:                *)
(*   - withConsistencyRetry            (frontend/src/lib/api.ts)           *)
(*   - QuizTab, the 5-question ox quiz (frontend/src/components/QuizTab)   *)
(*   - PracticeTab, the 4-choice drill (frontend/src/components/PracticeTab)*)
(*   - QuizTab, the free-text revision whose answers are evaluated          *)
(*   - subscribeTodos and the todo list (Day4_v2)                          *)
(*   - AskTab, the chat                (frontend/src/components/AskTab)    *)
(*   - DataTab, the S3 upload          (frontend/src/components/DataTab)   *)
(* Each component is a React function component: its useState cells are    *)
(* the variables, every event handler is one action (enabled when the JSX  *)
(* renders the element that carries it), and every await is a step of its  *)
(* own that the network decides.                                           *)
(***************************************************************************)
EXTENDS Integers, Sequences, FiniteSets, TLC

VARIABLES
  tab,             \* App: useState tab, the one mounted component
  \* ---- withConsistencyRetry (one call) ----
  maxRetries,      \* the maxRetries argument of the call
  attempt,         \* loop variable `attempt`
  lastError,       \* local `lastError`
  retryPc,         \* "loop" | "returned" | "thrown"
  retryValue,      \* the value returned / the error thrown to the caller
  outcomes,        \* history: outcome of every factory() invocation, in order
  \* ---- QuizTab ----
  quizPhase,       \* useState phase
  quizDifficulty,  \* useState difficulty
  currentIndex,    \* useState currentIndex
  quizzes,         \* useState quizzes
  selectedAnswer,  \* useState selectedAnswer
  records,         \* useState records
  quizError,       \* useState error (<<>> = '')
  batchRequest,    \* the pending api.generateQuizBatch call of startQuiz
  quizSavesInFlight, \* pending api.saveQuizResult calls
  quizSaved,       \* history: payloads of saveQuizResult since the batch arrived
  quizLastSave,    \* history: how the saveQuizResult call that settled last ended
  quizLastOp,      \* history: the handler or continuation that ran last
  \* ---- PracticeTab ----
  practicePhase,   \* useState phase
  practiceDifficulty, \* useState difficulty
  problem,         \* useState problem
  selected,        \* useState selected
  practiceError,   \* useState error
  stats,           \* useState stats
  nextProblem,     \* useState nextProblem (the prefetch slot)
  prefetching,     \* useState prefetching
  generateRequests, \* pending api.generatePractice calls of generate()
  prefetchRequests, \* pending api.generatePractice calls of prefetch()
  practiceSavesInFlight, \* pending api.savePracticeResult calls
  issued,          \* history: number of api.generatePractice calls issued
  session,         \* history: number of reset() calls so far
  practiceSaved,   \* history: practice_id of every savePracticeResult call
  practiceLastSave, \* history: how the savePracticeResult call that settled last ended
  shown,           \* history: practice_id of every question put on screen, and how
  practiceLastOp,  \* history: the handler or continuation that ran last
  \* ---- QuizTab, the free-text revision with evaluation (part_005) ----
  textPhase,       \* useState phase
  textDifficulty,  \* useState difficulty
  textQuiz,        \* useState quiz
  textAnswer,      \* useState answer (the typed text)
  evalResult,      \* useState evalResult
  showHint,        \* useState showHint
  textError,       \* useState error
  textGenerateRequest, \* the pending api.generateQuiz call of generate()
  evaluateRequest, \* the pending api.evaluateQuiz call of evaluate()
  textLastOp,      \* history: the handler or continuation that ran last
  \* ---- Day4_v2 App: the todo list fed by subscribeTodos ----
  todos,           \* useState todos
  listener,        \* the onSnapshot listener: "none" | "active" | "errored" | "unsubscribed"
  lastSnapshot,    \* history: the documents of the snapshot delivered last
  lastDelivery,    \* history: the listener event delivered last
  \* ---- AskTab ----
  messages,        \* useState messages
  input,           \* useState input
  loading,         \* useState loading
  askRequest,      \* the pending api.askBedrock call of handleSend
  askLastOp,       \* history: the handler or continuation that ran last
  \* ---- DataTab ----
  s3Status,        \* useState s3Status
  uploadPhase,     \* useState phase
  result,          \* useState result
  dataError,       \* useState error
  upload,          \* the running handleUpload call: files, loop position, results, hasError
  statusRequests,  \* pending api.s3Status calls of loadS3Status
  uploads,         \* history: handleUpload calls that got past the guard
  uploadLog,       \* history: file and outcome of every api.s3Upload call of the running or last upload
  dataLastOp       \* history: the handler or continuation that ran last

retryVars == <<maxRetries, attempt, lastError, retryPc, retryValue, outcomes>>
quizVars == <<quizPhase, quizDifficulty, currentIndex, quizzes, selectedAnswer,
              records, quizError, batchRequest, quizSavesInFlight, quizSaved,
              quizLastSave, quizLastOp>>
practiceVars == <<practicePhase, practiceDifficulty, problem, selected,
                  practiceError, stats, nextProblem, prefetching,
                  generateRequests, prefetchRequests, practiceSavesInFlight,
                  issued, session, practiceSaved, practiceLastSave,
                  shown, practiceLastOp>>
textVars == <<textPhase, textDifficulty, textQuiz, textAnswer, evalResult,
              showHint, textError, textGenerateRequest, evaluateRequest,
              textLastOp>>
todoVars == <<todos, listener, lastSnapshot, lastDelivery>>
askVars == <<messages, input, loading, askRequest, askLastOp>>
dataVars == <<s3Status, uploadPhase, result, dataError, upload, statusRequests,
              uploads, uploadLog, dataLastOp>>
vars == <<tab, retryVars, quizVars, practiceVars, textVars, todoVars, askVars, dataVars>>

-----------------------------------------------------------------------------
(* Bounds *)
MaxMsgLen == 3          \* longest error message, in symbols
MaxRetriesArg == 2      \* largest maxRetries argument tried
MaxBatchLen == 5        \* longest batch the server may return
MaxSavesInFlight == 1   \* pending fire-and-forget saves tracked at once
MaxIssued == 4          \* api.generatePractice calls per behaviour
MaxAnswerLen == 2       \* longest typed answer, in characters
MaxDocs == 2            \* most documents in one snapshot of the todos query
MaxQuestions == 2       \* questions sent to the chat in one behaviour
MaxFiles == 2           \* most files in one FileList
MaxUploads == 2         \* handleUpload calls that start an upload, per behaviour

(* Program constants *)
TOTAL_QUESTIONS == 5
DefaultMaxRetries == 1

Null == [null |-> TRUE]            \* null, for cells that hold an object
Undefined == [undefined |-> TRUE]  \* undefined
NoAnswer == "null"                 \* null, for cells that hold a string
Error(message) == [message |-> message]
Difficulty == {"beginner", "intermediate", "advanced"}
OxAnswer == {"O", "X"}             \* the two answers of the ox quiz
Choice == {"A", "B", "C", "D"}

-----------------------------------------------------------------------------
(* Error messages are sequences of symbols; the fixed text is one of them. *)
Symbols == {"k", "x"}
CONSISTENCY_ERROR_TEXT == <<"k", "k">>
Messages == UNION {[1..n -> Symbols] : n \in 0..MaxMsgLen}

\* String.prototype.includes
includes(message, text) ==
  \E i \in 0..(Len(message) - Len(text)) :
     \A j \in 1..Len(text) : message[i + j] = text[j]

\* variant: receiver and argument of includes() swapped
isConsistencyError_Swapped(message) == includes(CONSISTENCY_ERROR_TEXT, message)

\* variant: the message is compared with ===
isConsistencyError_Exact(message) == message = CONSISTENCY_ERROR_TEXT

isConsistencyError(message) == includes(message, CONSISTENCY_ERROR_TEXT)

\* variant: `attempt + 1 >= maxRetries`
rethrows_OffByOne(message, att, maxR) ==
  ~isConsistencyError(message) \/ att + 1 >= maxR

\* the catch block of withConsistencyRetry: TRUE when it rethrows
rethrows(message, att, maxR) == ~isConsistencyError(message) \/ att >= maxR

-----------------------------------------------------------------------------
(* withConsistencyRetry *)
Results == {"r1", "r2"}
DefaultError == Error(<<"x", "x">>)   \* new Error(...) of the last line

RetryCall(maxR) ==
  /\ maxRetries = maxR
  /\ attempt = 0
  /\ lastError = Undefined
  /\ retryPc = "loop"
  /\ retryValue = Undefined
  /\ outcomes = <<>>

\* the call runs on its own, no component is involved
RetryFrame == UNCHANGED <<tab, quizVars, practiceVars, textVars, todoVars, askVars, dataVars>>

\* a call with any maxRetries argument
RetryInit == \E maxR \in -1..MaxRetriesArg : RetryCall(maxR)

\* factory() resolves: `return await factory()`
FactoryResolves(res) ==
  /\ RetryFrame
  /\ retryPc = "loop"
  /\ attempt <= maxRetries
  /\ outcomes' = Append(outcomes, [value |-> res])
  /\ retryPc' = "returned"
  /\ retryValue' = [value |-> res]
  /\ UNCHANGED <<maxRetries, attempt, lastError>>

\* variant: the catch block throws a new generic error instead of `e`
FactoryRejects_ThrowsDefault(message) ==
  /\ RetryFrame
  /\ retryPc = "loop"
  /\ attempt <= maxRetries
  /\ outcomes' = Append(outcomes, Error(message))
  /\ lastError' = Error(message)
  /\ IF rethrows(message, attempt, maxRetries)
       THEN /\ retryPc' = "thrown"
            /\ retryValue' = DefaultError
            /\ attempt' = attempt
       ELSE /\ attempt' = attempt + 1
            /\ UNCHANGED <<retryPc, retryValue>>
  /\ UNCHANGED maxRetries

\* factory() rejects with Error(message): the catch block
FactoryRejects(message) ==
  /\ RetryFrame
  /\ retryPc = "loop"
  /\ attempt <= maxRetries
  /\ outcomes' = Append(outcomes, Error(message))
  /\ lastError' = Error(message)
  /\ IF rethrows(message, attempt, maxRetries)
       THEN /\ retryPc' = "thrown"
            /\ retryValue' = Error(message)
            /\ attempt' = attempt
       ELSE /\ attempt' = attempt + 1
            /\ UNCHANGED <<retryPc, retryValue>>
  /\ UNCHANGED maxRetries

\* the loop condition fails: the throw after the loop
LoopExits ==
  /\ RetryFrame
  /\ retryPc = "loop"
  /\ attempt > maxRetries
  /\ retryPc' = "thrown"
  /\ retryValue' = IF lastError # Undefined THEN lastError ELSE DefaultError
  /\ UNCHANGED <<maxRetries, attempt, lastError, outcomes>>

RetryNext ==
  \/ \E res \in Results : FactoryResolves(res)
  \/ \E message \in Messages : FactoryRejects(message)
  \/ LoopExits

-----------------------------------------------------------------------------
(* QuizTab *)

\* messages a failed request may carry into the component
FailureMessages == {CONSISTENCY_ERROR_TEXT, <<"x">>}

\* the batches POST /quiz/generate-batch may answer with
Batches ==
  UNION {{[i \in 1..n |-> [quiz_id |-> i, expected_answer |-> e[i]]] :
            e \in [1..n -> OxAnswer]} : n \in 0..MaxBatchLen}

QuizState ==
  [phase |-> quizPhase, difficulty |-> quizDifficulty,
   currentIndex |-> currentIndex, quizzes |-> quizzes,
   selectedAnswer |-> selectedAnswer, records |-> records,
   error |-> quizError]

\* const quiz = quizzes[currentIndex] ?? null
quiz(s) ==
  IF s.currentIndex + 1 \in DOMAIN s.quizzes
    THEN s.quizzes[s.currentIndex + 1] ELSE Null

\* variant: setRecords([]) is forgotten
startQuiz_KeepsRecords(s) ==
  [state |-> [s EXCEPT !.phase = "loading", !.error = <<>>,
                       !.selectedAnswer = NoAnswer,
                       !.currentIndex = 0, !.quizzes = <<>>],
   calls |-> <<[api |-> "generateQuizBatch", difficulty |-> s.difficulty,
                count |-> TOTAL_QUESTIONS]>>]

\* the synchronous part of startQuiz, up to the await
startQuiz(s) ==
  [state |-> [s EXCEPT !.phase = "loading", !.error = <<>>,
                       !.selectedAnswer = NoAnswer, !.records = <<>>,
                       !.currentIndex = 0, !.quizzes = <<>>],
   calls |-> <<[api |-> "generateQuizBatch", difficulty |-> s.difficulty,
                count |-> TOTAL_QUESTIONS]>>]

\* variant: the `|| selectedAnswer` half of the guard is missing
handleAnswer_NoGuard(s, answer) ==
  IF quiz(s) = Null
    THEN [state |-> s, calls |-> <<>>]
    ELSE [state |-> [s EXCEPT !.selectedAnswer = answer, !.phase = "result"],
          calls |-> <<[api |-> "saveQuizResult",
                       quiz_id |-> quiz(s).quiz_id,
                       expected_answer |-> quiz(s).expected_answer,
                       user_answer |-> answer,
                       is_correct |-> (answer = quiz(s).expected_answer),
                       difficulty |-> s.difficulty]>>]

handleAnswer(s, answer) ==
  IF quiz(s) = Null \/ s.selectedAnswer # NoAnswer
    THEN [state |-> s, calls |-> <<>>]
    ELSE [state |-> [s EXCEPT !.selectedAnswer = answer, !.phase = "result"],
          calls |-> <<[api |-> "saveQuizResult",
                       quiz_id |-> quiz(s).quiz_id,
                       expected_answer |-> quiz(s).expected_answer,
                       user_answer |-> answer,
                       is_correct |-> (answer = quiz(s).expected_answer),
                       difficulty |-> s.difficulty]>>]

\* variant: setCurrentIndex is forgotten
nextQuestion_NoAdvance(s) ==
  IF quiz(s) = Null \/ s.selectedAnswer = NoAnswer
    THEN [state |-> s, calls |-> <<>>]
    ELSE LET newRecords ==
               Append(s.records,
                      [quiz |-> quiz(s), answer |-> s.selectedAnswer,
                       isCorrect |-> (s.selectedAnswer = quiz(s).expected_answer)])
         IN  [state |->
                IF Len(newRecords) >= TOTAL_QUESTIONS
                  THEN [s EXCEPT !.records = newRecords, !.phase = "summary"]
                  ELSE [s EXCEPT !.records = newRecords,
                                 !.selectedAnswer = NoAnswer,
                                 !.phase = "question"],
              calls |-> <<>>]

\* variant: `newRecords.length > TOTAL_QUESTIONS`
nextQuestion_OffByOne(s) ==
  IF quiz(s) = Null \/ s.selectedAnswer = NoAnswer
    THEN [state |-> s, calls |-> <<>>]
    ELSE LET newRecords ==
               Append(s.records,
                      [quiz |-> quiz(s), answer |-> s.selectedAnswer,
                       isCorrect |-> (s.selectedAnswer = quiz(s).expected_answer)])
         IN  [state |->
                IF Len(newRecords) > TOTAL_QUESTIONS
                  THEN [s EXCEPT !.records = newRecords, !.phase = "summary"]
                  ELSE [s EXCEPT !.records = newRecords,
                                 !.currentIndex = s.currentIndex + 1,
                                 !.selectedAnswer = NoAnswer,
                                 !.phase = "question"],
              calls |-> <<>>]

\* variant: isCorrect is taken from the first quiz of the batch
nextQuestion_WrongFlag(s) ==
  IF quiz(s) = Null \/ s.selectedAnswer = NoAnswer
    THEN [state |-> s, calls |-> <<>>]
    ELSE LET newRecords ==
               Append(s.records,
                      [quiz |-> quiz(s), answer |-> s.selectedAnswer,
                       isCorrect |->
                         (s.selectedAnswer = s.quizzes[1].expected_answer)])
         IN  [state |->
                IF Len(newRecords) >= TOTAL_QUESTIONS
                  THEN [s EXCEPT !.records = newRecords, !.phase = "summary"]
                  ELSE [s EXCEPT !.records = newRecords,
                                 !.currentIndex = s.currentIndex + 1,
                                 !.selectedAnswer = NoAnswer,
                                 !.phase = "question"],
              calls |-> <<>>]

nextQuestion(s) ==
  IF quiz(s) = Null \/ s.selectedAnswer = NoAnswer
    THEN [state |-> s, calls |-> <<>>]
    ELSE LET newRecords ==
               Append(s.records,
                      [quiz |-> quiz(s), answer |-> s.selectedAnswer,
                       isCorrect |-> (s.selectedAnswer = quiz(s).expected_answer)])
         IN  [state |->
                IF Len(newRecords) >= TOTAL_QUESTIONS
                  THEN [s EXCEPT !.records = newRecords, !.phase = "summary"]
                  ELSE [s EXCEPT !.records = newRecords,
                                 !.currentIndex = s.currentIndex + 1,
                                 !.selectedAnswer = NoAnswer,
                                 !.phase = "question"],
              calls |-> <<>>]

\* startQuiz after the await: the try branch
startQuizThen(s, batch) == [s EXCEPT !.quizzes = batch, !.phase = "question"]

\* variant: setPhase('setup') is forgotten in the catch branch
startQuizCatch_KeepsPhase(s, message) == [s EXCEPT !.error = message]

\* startQuiz after the await: the catch branch
startQuizCatch(s, message) == [s EXCEPT !.error = message, !.phase = "setup"]

\* variant: the rejection is reported like a generation error
quizSaveSettled_Surfaces(s, ok) ==
  IF ok THEN s ELSE [s EXCEPT !.error = <<"x">>, !.phase = "setup"]

\* saveQuizResult(...).catch(() => {}): nothing runs on success or on failure
quizSaveSettled(s, ok) == s

quizReset(s) ==
  [state |-> [s EXCEPT !.phase = "setup", !.quizzes = <<>>,
                       !.selectedAnswer = NoAnswer, !.records = <<>>,
                       !.currentIndex = 0, !.error = <<>>],
   calls |-> <<>>]

\* const correctCount = records.filter((r) => r.isCorrect).length
IsCorrectRecord(r) == r.isCorrect
correctCount == Len(SelectSeq(records, IsCorrectRecord))

SetQuizState(s) ==
  /\ quizPhase' = s.phase
  /\ quizDifficulty' = s.difficulty
  /\ currentIndex' = s.currentIndex
  /\ quizzes' = s.quizzes
  /\ selectedAnswer' = s.selectedAnswer
  /\ records' = s.records
  /\ quizError' = s.error

QuizInit ==
  /\ quizPhase = "setup"
  /\ quizDifficulty = "beginner"
  /\ currentIndex = 0
  /\ quizzes = <<>>
  /\ selectedAnswer = NoAnswer
  /\ records = <<>>
  /\ quizError = <<>>
  /\ batchRequest = Null
  /\ quizSavesInFlight = 0
  /\ quizSaved = <<>>
  /\ quizLastSave = "none"
  /\ quizLastOp = "init"

\* {tab === 'quiz' && <QuizTab />}: the handlers exist while it is mounted
QuizMounted ==
  tab = "quiz" /\ UNCHANGED <<tab, retryVars, practiceVars, textVars, todoVars, askVars, dataVars>>

\* difficulty buttons of the setup screen
QuizSetDifficulty(d) ==
  /\ QuizMounted
  /\ quizPhase = "setup"
  /\ d # quizDifficulty
  /\ quizDifficulty' = d
  /\ quizLastOp' = "setDifficulty"
  /\ UNCHANGED quizLastSave
  /\ UNCHANGED <<quizPhase, currentIndex, quizzes, selectedAnswer, records,
                 quizError, batchRequest, quizSavesInFlight, quizSaved>>

\* startQuiz() and its request, shared by the two buttons bound to it
StartQuizFrom(op) ==
  /\ QuizMounted
  /\ SetQuizState(startQuiz(QuizState).state)
  /\ batchRequest' = [attempt |-> 0, difficulty |-> quizDifficulty]
  /\ quizSaved' = <<>>
  /\ quizLastOp' = op
  /\ UNCHANGED quizLastSave
  /\ UNCHANGED quizSavesInFlight

\* start button of the setup screen
StartQuiz ==
  /\ quizPhase = "setup"
  /\ StartQuizFrom("startQuiz")

\* "challenge again" button of the summary screen (onClick={startQuiz})
StartQuizAgain ==
  /\ quizPhase = "summary"
  /\ StartQuizFrom("startQuizAgain")

\* one attempt of the batch request fails inside withConsistencyRetry
BatchAttemptRejects(message) ==
  /\ QuizMounted
  /\ batchRequest # Null
  /\ IF rethrows(message, batchRequest.attempt, DefaultMaxRetries)
       THEN /\ SetQuizState(startQuizCatch(QuizState, message))
            /\ batchRequest' = Null
            /\ quizLastOp' = "startQuizFailed"
            /\ UNCHANGED quizLastSave
       ELSE /\ batchRequest' =
                 [batchRequest EXCEPT !.attempt = batchRequest.attempt + 1]
            /\ quizLastOp' = "startQuizRetry"
            /\ UNCHANGED quizLastSave
            /\ SetQuizState(QuizState)
  /\ UNCHANGED <<quizSavesInFlight, quizSaved>>

\* the batch request resolves
BatchResolves(batch) ==
  /\ QuizMounted
  /\ batchRequest # Null
  /\ SetQuizState(startQuizThen(QuizState, batch))
  /\ batchRequest' = Null
  /\ quizLastOp' = "startQuizDone"
  /\ UNCHANGED quizLastSave
  /\ UNCHANGED <<quizSavesInFlight, quizSaved>>

\* the two answer buttons, rendered in `question` when a quiz exists
HandleAnswer(answer) ==
  /\ QuizMounted
  /\ quizPhase = "question"
  /\ quiz(QuizState) # Null
  /\ quizSavesInFlight < MaxSavesInFlight
  /\ LET r == handleAnswer(QuizState, answer)
     IN  /\ SetQuizState(r.state)
         /\ quizSaved' = quizSaved \o r.calls
         /\ quizSavesInFlight' = quizSavesInFlight + Len(r.calls)
  /\ quizLastOp' = "handleAnswer"
  /\ UNCHANGED quizLastSave
  /\ UNCHANGED batchRequest

\* the next button, rendered in `result` when a quiz and an answer exist
NextQuestion ==
  /\ QuizMounted
  /\ quizPhase = "result"
  /\ quiz(QuizState) # Null
  /\ selectedAnswer # NoAnswer
  /\ SetQuizState(nextQuestion(QuizState).state)
  /\ quizLastOp' = "nextQuestion"
  /\ UNCHANGED quizLastSave
  /\ UNCHANGED <<batchRequest, quizSavesInFlight, quizSaved>>

\* the quit button of the summary screen
QuizReset ==
  /\ QuizMounted
  /\ quizPhase = "summary"
  /\ SetQuizState(quizReset(QuizState).state)
  /\ quizLastOp' = "reset"
  /\ UNCHANGED quizLastSave
  /\ UNCHANGED <<batchRequest, quizSavesInFlight, quizSaved>>

\* a saveQuizResult call settles; `.catch(() => {})` swallows a failure
QuizSaveSettles(ok) ==
  /\ QuizMounted
  /\ quizSavesInFlight > 0
  /\ quizSavesInFlight' = quizSavesInFlight - 1
  /\ SetQuizState(quizSaveSettled(QuizState, ok))
  /\ quizLastSave' = IF ok THEN "ok" ELSE "failed"
  /\ UNCHANGED <<batchRequest, quizSaved, quizLastOp>>

QuizNext ==
  \/ \E d \in Difficulty : QuizSetDifficulty(d)
  \/ StartQuiz
  \/ StartQuizAgain
  \/ \E message \in FailureMessages : BatchAttemptRejects(message)
  \/ \E batch \in Batches : BatchResolves(batch)
  \/ \E answer \in OxAnswer : HandleAnswer(answer)
  \/ NextQuestion
  \/ QuizReset
  \/ \E ok \in BOOLEAN : QuizSaveSettles(ok)

-----------------------------------------------------------------------------
(* PracticeTab *)

PracticeState ==
  [phase |-> practicePhase, difficulty |-> practiceDifficulty,
   problem |-> problem, selected |-> selected, error |-> practiceError,
   stats |-> stats, nextProblem |-> nextProblem, prefetching |-> prefetching]

generatePracticeCall(d) == [api |-> "generatePractice", difficulty |-> d]

\* variant: the `if (prefetching) return` guard is missing
prefetch_NoGuard(s) ==
  [state |-> [s EXCEPT !.prefetching = TRUE],
   calls |-> <<generatePracticeCall(s.difficulty)>>]

prefetch(s) ==
  IF s.prefetching
    THEN [state |-> s, calls |-> <<>>]
    ELSE [state |-> [s EXCEPT !.prefetching = TRUE],
          calls |-> <<generatePracticeCall(s.difficulty)>>]

\* variant: the prefetch slot is ignored
generate_AlwaysFetch(s) ==
  [state |-> [s EXCEPT !.phase = "loading", !.error = <<>>,
                       !.selected = NoAnswer],
   calls |-> <<generatePracticeCall(s.difficulty)>>]

\* variant: setNextProblem(null) is forgotten
generate_KeepsSlot(s) ==
  LET t == [s EXCEPT !.phase = "loading", !.error = <<>>,
                     !.selected = NoAnswer]
  IN  IF s.nextProblem # Null
        THEN [state |-> [t EXCEPT !.problem = s.nextProblem,
                                  !.phase = "answering"],
              calls |-> <<>>]
        ELSE [state |-> t, calls |-> <<generatePracticeCall(s.difficulty)>>]

\* the synchronous part of generate, up to the await
generate(s) ==
  LET t == [s EXCEPT !.phase = "loading", !.error = <<>>,
                     !.selected = NoAnswer]
  IN  IF s.nextProblem # Null
        THEN [state |-> [t EXCEPT !.problem = s.nextProblem,
                                  !.nextProblem = Null,
                                  !.phase = "answering"],
              calls |-> <<>>]
        ELSE [state |-> t, calls |-> <<generatePracticeCall(s.difficulty)>>]

\* variant: every answer is counted as correct
handleSelect_CountsAll(s, choice) ==
  IF s.phase # "answering" \/ s.selected # NoAnswer \/ s.problem = Null
    THEN [state |-> s, calls |-> <<>>]
    ELSE LET t == [s EXCEPT !.selected = choice, !.phase = "result",
                            !.stats = [total |-> s.stats.total + 1,
                                       correct |-> s.stats.correct + 1]]
             pf == prefetch(s)
         IN  [state |-> [t EXCEPT !.prefetching = pf.state.prefetching],
              calls |-> <<[api |-> "savePracticeResult",
                           practice_id |-> s.problem.practice_id,
                           selected |-> choice,
                           correct |-> s.problem.correct,
                           difficulty |-> s.difficulty]>> \o pf.calls]

handleSelect(s, choice) ==
  IF s.phase # "answering" \/ s.selected # NoAnswer \/ s.problem = Null
    THEN [state |-> s, calls |-> <<>>]
    ELSE LET isCorrect == s.problem.correct = choice
             t == [s EXCEPT !.selected = choice, !.phase = "result",
                            !.stats = [total |-> s.stats.total + 1,
                                       correct |-> s.stats.correct +
                                                   (IF isCorrect THEN 1 ELSE 0)]]
             \* prefetch() runs in the closure of the same render
             pf == prefetch(s)
         IN  [state |-> [t EXCEPT !.prefetching = pf.state.prefetching],
              calls |-> <<[api |-> "savePracticeResult",
                           practice_id |-> s.problem.practice_id,
                           selected |-> choice,
                           correct |-> s.problem.correct,
                           difficulty |-> s.difficulty]>> \o pf.calls]

next(s) == generate(s)

\* variant: setNextProblem(null) is forgotten
practiceReset_KeepsSlot(s) ==
  [state |-> [s EXCEPT !.phase = "setup", !.problem = Null,
                       !.selected = NoAnswer,
                       !.stats = [total |-> 0, correct |-> 0],
                       !.error = <<>>],
   calls |-> <<>>]

\* generate after the await: the try branch
generateThen(s, res) == [s EXCEPT !.problem = res, !.phase = "answering"]

\* variant: the catch branch goes back to the result screen
generateCatch_ToResult(s, message) ==
  [s EXCEPT !.error = message, !.phase = "result"]

\* variant: the catch branch also drops the stored question
generateCatch_DropsSlot(s, message) ==
  [s EXCEPT !.error = message, !.phase = "setup", !.nextProblem = Null]

\* generate after the await: the catch branch
generateCatch(s, message) == [s EXCEPT !.error = message, !.phase = "setup"]

\* prefetch after the await: the try branch, then finally
prefetchThen(s, res) == [s EXCEPT !.nextProblem = res, !.prefetching = FALSE]

\* variant: the catch branch reports the failure like generate() does
prefetchCatch_Surfaces(s, message) ==
  [s EXCEPT !.nextProblem = Null, !.prefetching = FALSE, !.error = message]

\* prefetch after the await: the catch branch, then finally
prefetchCatch(s, message) ==
  [s EXCEPT !.nextProblem = Null, !.prefetching = FALSE]

\* savePracticeResult(...).catch(() => {}): nothing runs on either outcome
practiceSaveSettled(s, ok) == s

\* variant: reset() also clears the prefetching flag
practiceReset_ClearsPrefetching(s) ==
  [state |-> [s EXCEPT !.phase = "setup", !.problem = Null,
                       !.selected = NoAnswer,
                       !.stats = [total |-> 0, correct |-> 0],
                       !.error = <<>>, !.nextProblem = Null,
                       !.prefetching = FALSE],
   calls |-> <<>>]

practiceReset(s) ==
  [state |-> [s EXCEPT !.phase = "setup", !.problem = Null,
                       !.selected = NoAnswer,
                       !.stats = [total |-> 0, correct |-> 0],
                       !.error = <<>>, !.nextProblem = Null],
   calls |-> <<>>]

SetPracticeState(s) ==
  /\ practicePhase' = s.phase
  /\ practiceDifficulty' = s.difficulty
  /\ problem' = s.problem
  /\ selected' = s.selected
  /\ practiceError' = s.error
  /\ stats' = s.stats
  /\ nextProblem' = s.nextProblem
  /\ prefetching' = s.prefetching

IsGenerate(call) == call.api = "generatePractice"
IsSave(call) == call.api = "savePracticeResult"

\* the requests a handler's generatePractice calls put in flight
NewRequests(calls) ==
  {[id |-> issued + 1, attempt |-> 0, difficulty |-> c.difficulty,
    session |-> session, from |-> practicePhase] :
     c \in {calls[i] : i \in {j \in DOMAIN calls : IsGenerate(calls[j])}}}

\* a response of POST /practice/generate to request req; difficulty and
\* session record what it was requested for (req.from is the phase in which
\* the call was made)
Response(req, correct) ==
  [practice_id |-> req.id, correct |-> correct, difficulty |-> req.difficulty,
   session |-> req.session]

PracticeInit ==
  /\ practicePhase = "setup"
  /\ practiceDifficulty = "beginner"
  /\ problem = Null
  /\ selected = NoAnswer
  /\ practiceError = <<>>
  /\ stats = [total |-> 0, correct |-> 0]
  /\ nextProblem = Null
  /\ prefetching = FALSE
  /\ generateRequests = {}
  /\ prefetchRequests = {}
  /\ practiceSavesInFlight = 0
  /\ issued = 0
  /\ session = 0
  /\ practiceSaved = <<>>
  /\ practiceLastSave = "none"
  /\ shown = <<>>
  /\ practiceLastOp = "init"

\* {tab === 'practice' && <PracticeTab />}
PracticeMounted ==
  tab = "practice" /\ UNCHANGED <<tab, retryVars, quizVars, textVars, todoVars, askVars, dataVars>>

\* difficulty buttons of the setup screen
PracticeSetDifficulty(d) ==
  /\ PracticeMounted
  /\ practicePhase = "setup"
  /\ d # practiceDifficulty
  /\ practiceDifficulty' = d
  /\ practiceLastOp' = "setDifficulty"
  /\ UNCHANGED shown
  /\ UNCHANGED <<practiceSaved, practiceLastSave>>
  /\ UNCHANGED <<practicePhase, problem, selected, practiceError, stats,
                 nextProblem, prefetching, generateRequests, prefetchRequests,
                 practiceSavesInFlight, issued, session>>

\* generate() and its request, shared by the start and the next button
Generate(op) ==
  /\ PracticeMounted
  /\ issued < MaxIssued
  /\ LET r == generate(PracticeState)
     IN  /\ SetPracticeState(r.state)
         /\ generateRequests' = generateRequests \cup NewRequests(r.calls)
         /\ issued' = issued + Cardinality(NewRequests(r.calls))
         /\ shown' = IF r.state.phase = "answering"
                        THEN Append(shown, [id |-> r.state.problem.practice_id,
                                            prefetched |-> TRUE])
                        ELSE shown
  /\ practiceLastOp' = op
  /\ UNCHANGED <<practiceSaved, practiceLastSave>>
  /\ UNCHANGED <<prefetchRequests, practiceSavesInFlight, session>>

\* start button of the setup screen (onClick={generate})
PracticeStart ==
  /\ practicePhase = "setup"
  /\ Generate("start")

\* next button of the result screen
PracticeNext ==
  /\ practicePhase = "result"
  /\ problem # Null
  /\ Generate("next")

\* one attempt of generate()'s request fails inside withConsistencyRetry
GenerateAttemptRejects(req, message) ==
  /\ PracticeMounted
  /\ req \in generateRequests
  /\ IF rethrows(message, req.attempt, DefaultMaxRetries)
       THEN /\ SetPracticeState(generateCatch(PracticeState, message))
            /\ generateRequests' = generateRequests \ {req}
            /\ practiceLastOp' = "generateFailed"
            /\ UNCHANGED shown
            /\ UNCHANGED <<practiceSaved, practiceLastSave>>
       ELSE /\ generateRequests' = (generateRequests \ {req}) \cup
                                   {[req EXCEPT !.attempt = req.attempt + 1]}
            /\ practiceLastOp' = "generateRetry"
            /\ UNCHANGED shown
            /\ UNCHANGED <<practiceSaved, practiceLastSave>>
            /\ SetPracticeState(PracticeState)
  /\ UNCHANGED <<prefetchRequests, practiceSavesInFlight, issued, session>>

\* generate()'s request resolves
GenerateResolves(req, correct) ==
  /\ PracticeMounted
  /\ req \in generateRequests
  /\ SetPracticeState(generateThen(PracticeState, Response(req, correct)))
  /\ generateRequests' = generateRequests \ {req}
  /\ practiceLastOp' = "generateDone"
  /\ shown' = Append(shown, [id |-> req.id, prefetched |-> FALSE])
  /\ UNCHANGED <<practiceSaved, practiceLastSave>>
  /\ UNCHANGED <<prefetchRequests, practiceSavesInFlight, issued, session>>

\* the choice buttons, rendered in `answering` and (disabled) in `result`
HandleSelect(choice) ==
  /\ PracticeMounted
  /\ practicePhase \in {"answering", "result"}
  /\ problem # Null
  /\ practicePhase # "result"
  /\ issued < MaxIssued
  /\ practiceSavesInFlight < MaxSavesInFlight
  /\ LET r == handleSelect(PracticeState, choice)
     IN  /\ SetPracticeState(r.state)
         /\ prefetchRequests' = prefetchRequests \cup NewRequests(r.calls)
         /\ issued' = issued + Cardinality(NewRequests(r.calls))
         /\ practiceSavesInFlight' = practiceSavesInFlight +
              Cardinality({i \in DOMAIN r.calls : IsSave(r.calls[i])})
         /\ practiceSaved' = practiceSaved \o
              [i \in 1..Len(SelectSeq(r.calls, IsSave)) |->
                 SelectSeq(r.calls, IsSave)[i].practice_id]
  /\ practiceLastOp' = "handleSelect"
  /\ UNCHANGED shown
  /\ UNCHANGED practiceLastSave
  /\ UNCHANGED <<generateRequests, session>>

\* one attempt of prefetch()'s request fails inside withConsistencyRetry
PrefetchAttemptRejects(req, message) ==
  /\ PracticeMounted
  /\ req \in prefetchRequests
  /\ IF rethrows(message, req.attempt, DefaultMaxRetries)
       THEN /\ SetPracticeState(prefetchCatch(PracticeState, message))
            /\ prefetchRequests' = prefetchRequests \ {req}
            /\ practiceLastOp' = "prefetchFailed"
            /\ UNCHANGED shown
            /\ UNCHANGED <<practiceSaved, practiceLastSave>>
       ELSE /\ prefetchRequests' = (prefetchRequests \ {req}) \cup
                                   {[req EXCEPT !.attempt = req.attempt + 1]}
            /\ practiceLastOp' = "prefetchRetry"
            /\ UNCHANGED shown
            /\ UNCHANGED <<practiceSaved, practiceLastSave>>
            /\ SetPracticeState(PracticeState)
  /\ UNCHANGED <<generateRequests, practiceSavesInFlight, issued, session>>

\* prefetch()'s request resolves
PrefetchResolves(req, correct) ==
  /\ PracticeMounted
  /\ req \in prefetchRequests
  /\ SetPracticeState(prefetchThen(PracticeState, Response(req, correct)))
  /\ prefetchRequests' = prefetchRequests \ {req}
  /\ practiceLastOp' = "prefetchDone"
  /\ UNCHANGED shown
  /\ UNCHANGED <<practiceSaved, practiceLastSave>>
  /\ UNCHANGED <<generateRequests, practiceSavesInFlight, issued, session>>

\* the quit button of the result screen
PracticeReset ==
  /\ PracticeMounted
  /\ practicePhase = "result"
  /\ problem # Null
  /\ SetPracticeState(practiceReset(PracticeState).state)
  /\ session' = session + 1
  /\ practiceLastOp' = "reset"
  /\ UNCHANGED shown
  /\ UNCHANGED <<practiceSaved, practiceLastSave>>
  /\ UNCHANGED <<generateRequests, prefetchRequests, practiceSavesInFlight,
                 issued>>

\* a savePracticeResult call settles; `.catch(() => {})` swallows a failure
PracticeSaveSettles(ok) ==
  /\ PracticeMounted
  /\ practiceSavesInFlight > 0
  /\ practiceSavesInFlight' = practiceSavesInFlight - 1
  /\ SetPracticeState(practiceSaveSettled(PracticeState, ok))
  /\ practiceLastSave' = IF ok THEN "ok" ELSE "failed"
  /\ UNCHANGED <<generateRequests, prefetchRequests, issued, session,
                 practiceSaved, shown, practiceLastOp>>

PracticeNextStep ==
  \/ \E d \in Difficulty : PracticeSetDifficulty(d)
  \/ PracticeStart
  \/ PracticeNext
  \/ \E req \in generateRequests, message \in FailureMessages :
       GenerateAttemptRejects(req, message)
  \/ \E req \in generateRequests, correct \in Choice :
       GenerateResolves(req, correct)
  \/ \E choice \in Choice : HandleSelect(choice)
  \/ \E req \in prefetchRequests, message \in FailureMessages :
       PrefetchAttemptRejects(req, message)
  \/ \E req \in prefetchRequests, correct \in Choice :
       PrefetchResolves(req, correct)
  \/ PracticeReset
  \/ \E ok \in BOOLEAN : PracticeSaveSettles(ok)

-----------------------------------------------------------------------------
(* QuizTab, free-text revision: one question at a time, the typed answer is *)
(* judged by POST /quiz/evaluate                                            *)

\* what the textarea may hold
Answers == UNION {[1..n -> {" ", "a"}] : n \in 0..MaxAnswerLen}

\* String.prototype.trim
trim(str) ==
  LET kept == {i \in DOMAIN str : str[i] # " "}
  IN  IF kept = {}
        THEN <<>>
        ELSE SubSeq(str, CHOOSE i \in kept : \A j \in kept : i <= j,
                         CHOOSE i \in kept : \A j \in kept : j <= i)

TextState ==
  [phase |-> textPhase, difficulty |-> textDifficulty, quiz |-> textQuiz,
   answer |-> textAnswer, evalResult |-> evalResult, showHint |-> showHint,
   error |-> textError]

\* the synchronous part of generate, up to the await
textGenerate(s) ==
  [state |-> [s EXCEPT !.phase = "loading", !.error = <<>>,
                       !.showHint = FALSE, !.answer = <<>>,
                       !.evalResult = Null],
   calls |-> <<[api |-> "generateQuiz", difficulty |-> s.difficulty]>>]

\* generate after the await: the try branch
textGenerateThen(s, res) == [s EXCEPT !.quiz = res, !.phase = "question"]

\* generate after the await: the catch branch
textGenerateCatch(s, message) ==
  [s EXCEPT !.error = message, !.phase = "setup"]

\* the synchronous part of evaluate, up to the await
evaluate(s) ==
  IF s.quiz = Null \/ trim(s.answer) = <<>>
    THEN [state |-> s, calls |-> <<>>]
    ELSE [state |-> [s EXCEPT !.phase = "evaluating", !.error = <<>>],
          calls |-> <<[api |-> "evaluateQuiz", quiz_id |-> s.quiz.quiz_id,
                       user_answer |-> trim(s.answer),
                       difficulty |-> s.difficulty]>>]

\* evaluate after the await: the try branch
evaluateThen(s, res) == [s EXCEPT !.evalResult = res, !.phase = "result"]

\* variant: the catch branch also empties the textarea
evaluateCatch_ClearsAnswer(s, message) ==
  [s EXCEPT !.error = message, !.phase = "question", !.answer = <<>>]

\* evaluate after the await: the catch branch
evaluateCatch(s, message) == [s EXCEPT !.error = message, !.phase = "question"]

textReset(s) ==
  [state |-> [s EXCEPT !.phase = "setup", !.quiz = Null, !.answer = <<>>,
                       !.evalResult = Null, !.showHint = FALSE,
                       !.error = <<>>],
   calls |-> <<>>]

SetTextState(s) ==
  /\ textPhase' = s.phase
  /\ textDifficulty' = s.difficulty
  /\ textQuiz' = s.quiz
  /\ textAnswer' = s.answer
  /\ evalResult' = s.evalResult
  /\ showHint' = s.showHint
  /\ textError' = s.error

\* the responses of POST /quiz/generate and POST /quiz/evaluate
QuizResponses == {[quiz_id |-> "q", hint |-> h] : h \in BOOLEAN}
EvalResponses == {[is_correct |-> c] : c \in BOOLEAN}

TextInit ==
  /\ textPhase = "setup"
  /\ textDifficulty = "beginner"
  /\ textQuiz = Null
  /\ textAnswer = <<>>
  /\ evalResult = Null
  /\ showHint = FALSE
  /\ textError = <<>>
  /\ textGenerateRequest = Null
  /\ evaluateRequest = Null
  /\ textLastOp = "init"

\* the free-text revision of QuizTab is the component mounted on the quiz tab
TextMounted ==
  tab = "textquiz" /\ UNCHANGED <<tab, retryVars, quizVars, practiceVars, todoVars, askVars, dataVars>>

\* difficulty buttons of the setup screen
TextSetDifficulty(d) ==
  /\ TextMounted
  /\ textPhase = "setup"
  /\ d # textDifficulty
  /\ textDifficulty' = d
  /\ textLastOp' = "setDifficulty"
  /\ UNCHANGED <<textPhase, textQuiz, textAnswer, evalResult, showHint, textError,
                 textGenerateRequest, evaluateRequest>>

\* generate() and its request, shared by the start and the next button
TextGenerate(op) ==
  /\ TextMounted
  /\ SetTextState(textGenerate(TextState).state)
  /\ textGenerateRequest' =
       [attempt |-> 0, difficulty |-> textDifficulty, from |-> textPhase]
  /\ textLastOp' = op
  /\ UNCHANGED evaluateRequest

\* start button of the setup screen
TextStart ==
  /\ textPhase = "setup"
  /\ TextGenerate("start")

\* next button of the result screen
TextNext ==
  /\ textPhase = "result"
  /\ evalResult # Null
  /\ textQuiz # Null
  /\ TextGenerate("next")

\* one attempt of generate()'s request fails inside withConsistencyRetry
TextGenerateAttemptRejects(message) ==
  /\ TextMounted
  /\ textGenerateRequest # Null
  /\ IF rethrows(message, textGenerateRequest.attempt, DefaultMaxRetries)
       THEN /\ SetTextState(textGenerateCatch(TextState, message))
            /\ textGenerateRequest' = Null
            /\ textLastOp' = "generateFailed"
       ELSE /\ SetTextState(TextState)
            /\ textGenerateRequest' =
                 [textGenerateRequest EXCEPT
                    !.attempt = textGenerateRequest.attempt + 1]
            /\ textLastOp' = "generateRetry"
  /\ UNCHANGED evaluateRequest

\* generate()'s request resolves
TextGenerateResolves(res) ==
  /\ TextMounted
  /\ textGenerateRequest # Null
  /\ SetTextState(textGenerateThen(TextState, res))
  /\ textGenerateRequest' = Null
  /\ textLastOp' = "generateDone"
  /\ UNCHANGED evaluateRequest

\* the hint link of the question screen
ShowHint ==
  /\ TextMounted
  /\ textPhase = "question"
  /\ textQuiz # Null
  /\ textQuiz.hint
  /\ ~showHint
  /\ showHint' = TRUE
  /\ textLastOp' = "showHint"
  /\ UNCHANGED <<textPhase, textDifficulty, textQuiz, textAnswer, evalResult,
                 textError, textGenerateRequest, evaluateRequest>>

\* typing into the textarea of the question screen
SetAnswer(value) ==
  /\ TextMounted
  /\ textPhase = "question"
  /\ textQuiz # Null
  /\ value # textAnswer
  /\ textAnswer' = value
  /\ textLastOp' = "setAnswer"
  /\ UNCHANGED <<textPhase, textDifficulty, textQuiz, evalResult, showHint,
                 textError, textGenerateRequest, evaluateRequest>>

\* the answer button, disabled while the trimmed answer is empty
Evaluate ==
  /\ TextMounted
  /\ textPhase = "question"
  /\ textQuiz # Null
  /\ trim(textAnswer) # <<>>
  /\ LET r == evaluate(TextState)
     IN  /\ SetTextState(r.state)
         /\ evaluateRequest' = r.calls[1]
  /\ textLastOp' = "evaluate"
  /\ UNCHANGED textGenerateRequest

\* evaluate()'s request fails: api.evaluateQuiz is a plain post, not retried
EvaluateRejects(message) ==
  /\ TextMounted
  /\ evaluateRequest # Null
  /\ SetTextState(evaluateCatch(TextState, message))
  /\ evaluateRequest' = Null
  /\ textLastOp' = "evaluateFailed"
  /\ UNCHANGED textGenerateRequest

\* evaluate()'s request resolves
EvaluateResolves(res) ==
  /\ TextMounted
  /\ evaluateRequest # Null
  /\ SetTextState(evaluateThen(TextState, res))
  /\ evaluateRequest' = Null
  /\ textLastOp' = "evaluateDone"
  /\ UNCHANGED textGenerateRequest

\* the quit buttons of the question and the result screen
TextReset ==
  /\ TextMounted
  /\ \/ textPhase = "question" /\ textQuiz # Null
     \/ textPhase = "result" /\ evalResult # Null /\ textQuiz # Null
  /\ SetTextState(textReset(TextState).state)
  /\ textLastOp' = "reset"
  /\ UNCHANGED <<textGenerateRequest, evaluateRequest>>

TextNextStep ==
  \/ \E d \in Difficulty : TextSetDifficulty(d)
  \/ TextStart
  \/ TextNext
  \/ \E message \in FailureMessages : TextGenerateAttemptRejects(message)
  \/ \E res \in QuizResponses : TextGenerateResolves(res)
  \/ ShowHint
  \/ \E value \in Answers : SetAnswer(value)
  \/ Evaluate
  \/ \E message \in FailureMessages : EvaluateRejects(message)
  \/ \E res \in EvalResponses : EvaluateResolves(res)
  \/ TextReset

-----------------------------------------------------------------------------
(* Day4_v2: the todo App and subscribeTodos (services/firestore.js)         *)

Missing == "undefined"     \* a field the document does not have

\* the documents a snapshot of the todos query may hold: title may be absent
\* or empty, createdAt is absent while the server timestamp is pending
Docs ==
  [id : {"a", "b"}, title : {"t", "", Missing}, createdAt : {"t1", Missing}]

\* snapshots: documents of a collection have distinct ids
Snapshots ==
  {docs \in UNION {[1..n -> Docs] : n \in 0..MaxDocs} :
     \A i, j \in DOMAIN docs : docs[i].id = docs[j].id => i = j}

\* the entry pushed for one document: `data.title || ''` and
\* `data.createdAt?.toDate?.() || new Date()`
todoOf(doc) ==
  [id |-> doc.id,
   title |-> IF doc.title \in {Missing, ""} THEN "" ELSE doc.title,
   createdAt |-> IF doc.createdAt = Missing THEN "now" ELSE doc.createdAt]

\* the list the snapshot handler passes to callback
onNext(docs) == [i \in DOMAIN docs |-> todoOf(docs[i])]

\* variant: the error handler only logs and leaves the list
onError_KeepsList(current) == current

\* the list the callback holds after the error handler ran: callback([])
onError(current) == <<>>

TodoInit ==
  /\ todos = <<>>
  /\ listener = "none"
  /\ lastSnapshot = <<>>
  /\ lastDelivery = "none"

\* the Day4_v2 App is the program that runs
TodoMounted ==
  tab = "todos" /\ UNCHANGED <<tab, retryVars, quizVars, practiceVars, textVars, askVars, dataVars>>

\* useEffect(() => { const unsubscribe = subscribeTodos(...) }, [])
Subscribe ==
  /\ TodoMounted
  /\ listener = "none"
  /\ listener' = "active"
  /\ UNCHANGED <<todos, lastSnapshot, lastDelivery>>

\* the listener delivers a snapshot: callback(todos), i.e. setTodos(data)
SnapshotArrives(docs) ==
  /\ TodoMounted
  /\ listener = "active"
  /\ todos' = onNext(docs)
  /\ lastSnapshot' = docs
  /\ lastDelivery' = "snapshot"
  /\ UNCHANGED listener

\* the listener reports an error; Firestore delivers nothing after it
ListenerFails ==
  /\ TodoMounted
  /\ listener = "active"
  /\ todos' = onError(todos)
  /\ listener' = "errored"
  /\ lastDelivery' = "error"
  /\ UNCHANGED lastSnapshot

\* the cleanup of the effect: unsubscribe()
Unsubscribe ==
  /\ TodoMounted
  /\ listener \in {"active", "errored"}
  /\ listener' = "unsubscribed"
  /\ UNCHANGED <<todos, lastSnapshot, lastDelivery>>

TodoNext ==
  \/ Subscribe
  \/ \E docs \in Snapshots : SnapshotArrives(docs)
  \/ ListenerFails
  \/ Unsubscribe

-----------------------------------------------------------------------------
(* AskTab *)

SUGGESTIONS == <<<<"RAG">>, <<"Embedding">>, <<"Hallucination">>,
                 <<"VectorDB">>>>

\* the optional parameter of handleSend
NoOverride == [given |-> FALSE]
Override(question) == [given |-> TRUE, value |-> question]
Overrides == {NoOverride} \cup {Override(SUGGESTIONS[i]) : i \in DOMAIN SUGGESTIONS}

AskState == [messages |-> messages, input |-> input, loading |-> loading]

\* (overrideQuestion || input).trim()
question(s, overrideQuestion) ==
  trim(IF overrideQuestion.given /\ overrideQuestion.value # <<>>
         THEN overrideQuestion.value
         ELSE s.input)

\* variant: the `loading` half of the guard is missing
handleSend_NoLoadingGuard(s, overrideQuestion) ==
  LET q == question(s, overrideQuestion)
  IN  IF q = <<>>
        THEN [state |-> s, calls |-> <<>>]
        ELSE [state |-> [s EXCEPT !.messages = Append(@, [role |-> "user",
                                                          content |-> q]),
                                  !.input = <<>>,
                                  !.loading = TRUE],
              calls |-> <<[api |-> "askBedrock", question |-> q]>>]

\* the synchronous part of handleSend, up to the await
handleSend(s, overrideQuestion) ==
  LET q == question(s, overrideQuestion)
  IN  IF q = <<>> \/ s.loading
        THEN [state |-> s, calls |-> <<>>]
        ELSE [state |-> [s EXCEPT !.messages = Append(@, [role |-> "user",
                                                          content |-> q]),
                                  !.input = <<>>,
                                  !.loading = TRUE],
              calls |-> <<[api |-> "askBedrock", question |-> q]>>]

\* handleSend after the await: the try branch, then finally
handleSendThen(s, res) ==
  [s EXCEPT !.messages = Append(@, [role |-> "assistant",
                                    content |-> res.answer,
                                    sources |-> res.sources,
                                    time_ms |-> res.response_time_ms]),
            !.loading = FALSE]

\* handleSend after the await: the catch branch, then finally; "Error: "
\* stands for the fixed prefix of the template literal
handleSendCatch(s, message) ==
  [s EXCEPT !.messages = Append(@, [role |-> "assistant",
                                    content |-> <<"Error: ">> \o message]),
            !.loading = FALSE]

SetAskState(s) ==
  /\ messages' = s.messages
  /\ input' = s.input
  /\ loading' = s.loading

\* what POST /ask/bedrock may answer with
AskResponses ==
  [answer : {<<"a">>}, sources : {<<>>, <<"chunk">>},
   response_time_ms : {0, 1200}]

AskInit ==
  /\ messages = <<>>
  /\ input = <<>>
  /\ loading = FALSE
  /\ askRequest = Null
  /\ askLastOp = "init"

AskMounted ==
  tab = "ask" /\ UNCHANGED <<tab, retryVars, quizVars, practiceVars, textVars, todoVars, dataVars>>

\* a call of handleSend from the element that carries it
Send(overrideQuestion, op) ==
  /\ AskMounted
  /\ Len(messages) < 2 * MaxQuestions
  /\ LET r == handleSend(AskState, overrideQuestion)
     IN  /\ SetAskState(r.state)
         /\ askRequest' = IF r.calls = <<>> THEN askRequest ELSE r.calls[1]
         /\ askLastOp' = IF r.calls = <<>> THEN "ignored" ELSE op

\* onChange of the input, which is disabled while loading
SetInput(value) ==
  /\ AskMounted
  /\ ~loading
  /\ value # input
  /\ input' = value
  /\ askLastOp' = "setInput"
  /\ UNCHANGED <<messages, loading, askRequest>>

\* Enter in the input, which is disabled while loading
PressEnter ==
  /\ ~loading
  /\ Send(NoOverride, "enter")

\* the send button, disabled while loading or when the input trims to ''
ClickSend ==
  /\ ~(loading \/ trim(input) = <<>>)
  /\ Send(NoOverride, "click")

\* a suggestion chip of the empty state
ClickSuggestion(i) ==
  /\ Len(messages) = 0 /\ ~loading
  /\ Send(Override(SUGGESTIONS[i]), "suggestion")

\* the request resolves
AskResolves(res) ==
  /\ AskMounted
  /\ askRequest # Null
  /\ SetAskState(handleSendThen(AskState, res))
  /\ askRequest' = Null
  /\ askLastOp' = "answered"

\* the request rejects
AskRejects(message) ==
  /\ AskMounted
  /\ askRequest # Null
  /\ SetAskState(handleSendCatch(AskState, message))
  /\ askRequest' = Null
  /\ askLastOp' = "failed"

AskSettles ==
  \/ \E res \in AskResponses : AskResolves(res)
  \/ \E message \in FailureMessages : AskRejects(message)

AskNext ==
  \/ \E value \in Answers : SetInput(value)
  \/ PressEnter
  \/ ClickSend
  \/ \E i \in DOMAIN SUGGESTIONS : ClickSuggestion(i)
  \/ \E res \in AskResponses : AskResolves(res)
  \/ \E message \in FailureMessages : AskRejects(message)

-----------------------------------------------------------------------------
(* DataTab: handleUpload and loadS3Status.  The upload zone is inert while  *)
(* phase is 'uploading', so one handleUpload call runs at a time.           *)

\* FileList | null; a File is known by its name
FileLists ==
  {Null} \cup
  UNION {{[items |-> f] : f \in [1..n -> {"a.pdf", "b.md"}]} : n \in 0..MaxFiles}

DataState ==
  [s3Status |-> s3Status, phase |-> uploadPhase, result |-> result,
   error |-> dataError]

\* formatBytes, as the symbols of the string it returns
formatBytes(bytes) ==
  IF bytes = 0
    THEN <<"0 B">>
    ELSE LET k == 1024
             sizes == <<"B", "KB", "MB", "GB">>
             \* Math.floor(Math.log(bytes) / Math.log(k))
             i == CHOOSE e \in 0..3 :
                    k ^ e <= bytes /\ (e = 3 \/ bytes < k ^ (e + 1))
             \* (bytes / Math.pow(k, i)).toFixed(1), in tenths
             tenths == (bytes * 20 + k ^ i) \div (2 * k ^ i)
         IN  <<ToString(tenths \div 10), ".", ToString(tenths % 10), " ",
               sizes[i + 1]>>

\* results.join('\n')
RECURSIVE join(_)
join(results) ==
  IF Len(results) = 0 THEN <<>>
  ELSE IF Len(results) = 1 THEN results[1]
  ELSE results[1] \o <<"\n">> \o join(Tail(results))

\* the synchronous part of handleUpload, up to the first await
handleUpload(s, files) ==
  IF "null" \in DOMAIN files \/ Len(files.items) = 0
    THEN [state |-> s, run |-> Null]
    ELSE [state |-> [s EXCEPT !.phase = "uploading", !.error = <<>>,
                              !.result = <<>>],
          run |-> [files |-> files.items, index |-> 1, results |-> <<>>,
                   hasError |-> FALSE]]

\* the loop body after the await: the try branch
uploadThen(run, res) ==
  [run EXCEPT !.results = Append(@, <<res.filename, " -> ", res.uri, " (">> \o
                                    formatBytes(res.size) \o <<")">>),
              !.index = @ + 1]

\* variant: a failed file ends the loop
uploadCatch_Aborts(run, message) ==
  [run EXCEPT !.hasError = TRUE,
              !.results = Append(@, <<run.files[run.index], ": ">> \o message),
              !.index = Len(run.files) + 1]

\* the loop body after the await: the catch branch
uploadCatch(run, message) ==
  [run EXCEPT !.hasError = TRUE,
              !.results = Append(@, <<run.files[run.index], ": ">> \o message),
              !.index = @ + 1]

\* after the loop, up to `await loadS3Status()`
uploadDone(s, run) ==
  [s EXCEPT !.result = join(run.results),
            !.phase = IF run.hasError THEN "error" ELSE "done"]

\* loadS3Status after the await: the try branch
loadS3StatusThen(s, status) == [s EXCEPT !.s3Status = status, !.error = <<>>]

\* loadS3Status after the await: the catch branch
loadS3StatusCatch(s, message) == [s EXCEPT !.error = message]

SetDataState(s) ==
  /\ s3Status' = s.s3Status
  /\ uploadPhase' = s.phase
  /\ result' = s.result
  /\ dataError' = s.error

\* what POST /s3/upload may answer with for a file
UploadResponses(name) ==
  [filename : {name}, bucket : {"bucket"}, size : {0, 1536},
   uri : {"s3://bucket/" \o name}]

\* what GET /s3/status may answer with
S3Statuses == [bucket : {"bucket"}, file_count : {0, 1}]

\* the state after the first render and its effect, which calls loadS3Status
DataInit ==
  /\ s3Status = Null
  /\ uploadPhase = "idle"
  /\ result = <<>>
  /\ dataError = <<>>
  /\ upload = Null
  /\ statusRequests = 1
  /\ uploads = 0
  /\ uploadLog = <<>>
  /\ dataLastOp = "init"

DataMounted ==
  tab = "data" /\ UNCHANGED <<tab, retryVars, quizVars, practiceVars, textVars, todoVars, askVars>>

\* onChange of the file input, or a drop on the upload zone
HandleUpload(files) ==
  /\ DataMounted
  /\ uploadPhase # "uploading"
  /\ uploads < MaxUploads
  /\ LET r == handleUpload(DataState, files)
     IN  /\ SetDataState(r.state)
         /\ upload' = r.run
         /\ uploads' = IF r.run = Null THEN uploads ELSE uploads + 1
         /\ uploadLog' = IF r.run = Null THEN uploadLog ELSE <<>>
         /\ dataLastOp' = IF r.run = Null THEN "ignored" ELSE "handleUpload"
  /\ UNCHANGED statusRequests

\* the loop goes on to the next file, or ends and calls loadS3Status
UploadContinues(run, ok) ==
  /\ uploadLog' = Append(uploadLog, [name |-> upload.files[upload.index],
                                     ok |-> ok])
  /\ IF run.index <= Len(run.files)
       THEN /\ upload' = run
            /\ SetDataState(DataState)
            /\ dataLastOp' = "uploadNext"
            /\ UNCHANGED statusRequests
       ELSE /\ upload' = Null
            /\ SetDataState(uploadDone(DataState, run))
            /\ dataLastOp' = "uploadDone"
            /\ statusRequests' = statusRequests + 1
  /\ UNCHANGED uploads

\* the api.s3Upload call of the current file resolves
UploadResolves(res) ==
  /\ DataMounted
  /\ upload # Null
  /\ res \in UploadResponses(upload.files[upload.index])
  /\ UploadContinues(uploadThen(upload, res), TRUE)

\* the api.s3Upload call of the current file rejects
UploadRejects(message) ==
  /\ DataMounted
  /\ upload # Null
  /\ UploadContinues(uploadCatch(upload, message), FALSE)

\* an api.s3Status call resolves
S3StatusResolves(status) ==
  /\ DataMounted
  /\ statusRequests > 0
  /\ SetDataState(loadS3StatusThen(DataState, status))
  /\ statusRequests' = statusRequests - 1
  /\ dataLastOp' = "statusLoaded"
  /\ UNCHANGED <<upload, uploads, uploadLog>>

\* an api.s3Status call rejects
S3StatusRejects(message) ==
  /\ DataMounted
  /\ statusRequests > 0
  /\ SetDataState(loadS3StatusCatch(DataState, message))
  /\ statusRequests' = statusRequests - 1
  /\ dataLastOp' = "statusFailed"
  /\ UNCHANGED <<upload, uploads, uploadLog>>

DataNext ==
  \/ \E files \in FileLists : HandleUpload(files)
  \/ \E res \in UNION {UploadResponses(n) : n \in {"a.pdf", "b.md"}} :
        UploadResolves(res)
  \/ \E message \in FailureMessages : UploadRejects(message)
  \/ \E status \in S3Statuses : S3StatusResolves(status)
  \/ \E message \in FailureMessages : S3StatusRejects(message)

-----------------------------------------------------------------------------
(* Specifications: a behaviour follows the one component that is mounted *)

Components ==
  /\ RetryCall(DefaultMaxRetries)
  /\ QuizInit /\ PracticeInit /\ TextInit /\ TodoInit /\ AskInit /\ DataInit
RetryOnly ==
  /\ tab = "none"
  /\ RetryInit
  /\ QuizInit /\ PracticeInit /\ TextInit /\ TodoInit /\ AskInit /\ DataInit
QuizMountedInit == tab = "quiz" /\ Components
PracticeMountedInit == tab = "practice" /\ Components
TextMountedInit == tab = "textquiz" /\ Components
TodoMountedInit == tab = "todos" /\ Components
AskMountedInit == tab = "ask" /\ Components
DataMountedInit == tab = "data" /\ Components
Init == tab \in {"quiz", "practice", "textquiz"} /\ Components

SessionNext == QuizNext \/ PracticeNextStep \/ TextNextStep

RetrySpec == RetryOnly /\ [][RetryNext]_vars
\* every factory() promise settles, and the loop runs on when it can
RetryFairSpec == RetryOnly /\ [][RetryNext]_vars /\ WF_vars(RetryNext)
QuizSpec == QuizMountedInit /\ [][QuizNext]_vars
PracticeSpec == PracticeMountedInit /\ [][PracticeNextStep]_vars
TextSpec == TextMountedInit /\ [][TextNextStep]_vars
TodoSpec == TodoMountedInit /\ [][TodoNext]_vars
AskSpec == AskMountedInit /\ [][AskNext]_vars
DataSpec == DataMountedInit /\ [][DataNext]_vars
\* every request to /ask/bedrock settles
AskFairSpec == AskMountedInit /\ [][AskNext]_vars /\ WF_vars(AskSettles)
SessionSpec == Init /\ [][SessionNext]_vars

-----------------------------------------------------------------------------
(* Properties *)

\* C1 (as stated): in the quiz session len(records) <= currentIndex <=
\* TOTAL_QUESTIONS holds in every reachable state, `summary` included.
C1_RecordsWithinPosition ==
  Len(records) <= currentIndex /\ currentIndex <= TOTAL_QUESTIONS

\* C1 (amended): len(records) <= currentIndex <= TOTAL_QUESTIONS holds in
\* every reachable state other than `summary`, and len(records) never exceeds
\* TOTAL_QUESTIONS; in `summary` the index stays on the last question, so
\* len(records) = currentIndex + 1 = TOTAL_QUESTIONS.
C1_RecordsWithinPositionUntilSummary ==
  /\ Len(records) <= TOTAL_QUESTIONS
  /\ currentIndex <= TOTAL_QUESTIONS
  /\ quizPhase # "summary" => Len(records) <= currentIndex
  /\ quizPhase = "summary" =>
       Len(records) = currentIndex + 1 /\ Len(records) = TOTAL_QUESTIONS

C1_Witness ==
  /\ quizPhase = "summary"
  /\ Len(records) = TOTAL_QUESTIONS
  /\ currentIndex = TOTAL_QUESTIONS - 1

\* C2: once TOTAL_QUESTIONS answers are recorded the phase is `summary`, and
\* from then on the records stay as they are until startQuiz or reset empties
\* them.
C2_SummaryAfterTarget ==
  [][/\ Len(records') = TOTAL_QUESTIONS => quizPhase' = "summary"
     /\ Len(records) = TOTAL_QUESTIONS =>
          \/ records' = records
          \/ records' = <<>> /\ quizLastOp' \in {"startQuizAgain", "reset"}]_vars

C2_Witness ==
  /\ Len(records) = TOTAL_QUESTIONS
  /\ quizLastOp = "nextQuestion"
  /\ quizSavesInFlight = 0

\* an outcome is a ConsistencyError when its message carries the fixed text
IsConsistencyOutcome(o) ==
  "message" \in DOMAIN o /\ includes(o.message, CONSISTENCY_ERROR_TEXT)
IsOtherErrorOutcome(o) ==
  "message" \in DOMAIN o /\ ~includes(o.message, CONSISTENCY_ERROR_TEXT)
IsSuccessOutcome(o) == "value" \in DOMAIN o

\* C4: with the default maxRetries, a call whose first attempt fails with a
\* consistency error makes exactly one more attempt: it never ends after the
\* first attempt, never makes a third, returns the retry's result when the
\* retry succeeds and throws the retry's error when the retry fails with a
\* consistency error again.
C4_RetriedExactlyOnce ==
  (/\ maxRetries = DefaultMaxRetries
   /\ Len(outcomes) >= 1
   /\ IsConsistencyOutcome(outcomes[1]))
  => /\ Len(outcomes) <= 2
     /\ retryPc # "loop" => Len(outcomes) = 2
     /\ (Len(outcomes) = 2 /\ IsSuccessOutcome(outcomes[2])) =>
          retryPc = "returned" /\ retryValue = outcomes[2]
     /\ (Len(outcomes) = 2 /\ IsConsistencyOutcome(outcomes[2])) =>
          retryPc = "thrown" /\ retryValue = outcomes[2]

C4_Witness ==
  /\ maxRetries = DefaultMaxRetries
  /\ Len(outcomes) = 2
  /\ IsConsistencyOutcome(outcomes[1])
  /\ IsConsistencyOutcome(outcomes[2])
  /\ retryPc = "thrown"

\* C5: an attempt that fails with an error that is not a consistency error is
\* the last attempt, whatever maxRetries is and whether it is the first
\* attempt or a retry: the call has thrown exactly that error.
C5_OtherErrorsSurfaceAtOnce ==
  \A i \in 1..Len(outcomes) :
    IsOtherErrorOutcome(outcomes[i]) =>
      /\ i = Len(outcomes)
      /\ retryPc = "thrown"
      /\ retryValue = outcomes[i]

C5_Witness ==
  /\ Len(outcomes) = 2
  /\ IsConsistencyOutcome(outcomes[1])
  /\ IsOtherErrorOutcome(outcomes[2])
  /\ retryPc = "thrown"

NoOp(s) == [state |-> s, calls |-> <<>>]

\* C3: handleAnswer / handleSelect called outside `question` / `answering`,
\* and nextQuestion / next called outside `result`, return the state they were
\* given and make no network call.
C3_NoOpOutsidePhase ==
  /\ quizPhase # "question" =>
       \A answer \in OxAnswer : handleAnswer(QuizState, answer) = NoOp(QuizState)
  /\ practicePhase # "answering" =>
       \A choice \in Choice :
          handleSelect(PracticeState, choice) = NoOp(PracticeState)
  /\ quizPhase # "result" => nextQuestion(QuizState) = NoOp(QuizState)
  /\ practicePhase # "result" => next(PracticeState) = NoOp(PracticeState)

\* C6: a prefetch result that arrives after reset() is discarded: neither the
\* prefetch slot nor the presented problem ever holds a question that was
\* requested before the last reset.
C6_LatePrefetchDiscarded ==
  /\ nextProblem # Null => nextProblem.session = session
  /\ problem # Null => problem.session = session

\* C7: a step of next() with the slot populated issues no request, presents
\* the prefetched question and empties the slot; with the slot empty it issues
\* exactly one generatePractice request and no prefetch.
C7_NextUsesPrefetch ==
  [][(practicePhase = "result" /\ practiceLastOp' = "next") =>
       IF nextProblem # Null
         THEN /\ issued' = issued
              /\ generateRequests' = generateRequests
              /\ prefetchRequests' = prefetchRequests
              /\ problem' = nextProblem
              /\ nextProblem' = Null
              /\ practicePhase' = "answering"
         ELSE /\ issued' = issued + 1
              /\ Cardinality(generateRequests') =
                   Cardinality(generateRequests) + 1
              /\ generateRequests \subseteq generateRequests'
              /\ prefetchRequests' = prefetchRequests
              /\ practicePhase' = "loading"]_vars

C7_Witness ==
  /\ practiceLastOp = "next"
  /\ practicePhase = "answering"
  /\ nextProblem = Null
  /\ generateRequests = {}

\* C8: at most one prefetch request is outstanding in every reachable state.
C8_OnePrefetchOutstanding == Cardinality(prefetchRequests) <= 1

\* a second answer was submitted while the first answer's prefetch is pending
C8_Witness ==
  /\ practiceLastOp = "handleSelect"
  /\ stats.total >= 2
  /\ Cardinality(prefetchRequests) = 1
  /\ \A req \in prefetchRequests : req.id < issued

\* C9: in `summary` there are exactly TOTAL_QUESTIONS records, record i is
\* about quiz i of the batch, its flag is true exactly when its answer equals
\* that quiz's expected answer, and correctCount is the number of such records.
C9_SummaryCounts ==
  quizPhase = "summary" =>
    /\ Len(records) = TOTAL_QUESTIONS
    /\ \A i \in 1..Len(records) :
         /\ records[i].quiz = quizzes[i]
         /\ records[i].isCorrect <=>
              (records[i].answer = quizzes[i].expected_answer)
    /\ correctCount =
         Cardinality({i \in 1..Len(records) :
                        records[i].answer = quizzes[i].expected_answer})

C9_Witness ==
  /\ quizPhase = "summary"
  /\ correctCount = 3
  /\ ~records[1].isCorrect
  /\ records[2].isCorrect

QuizCleared(s) ==
  /\ s.phase = "setup"
  /\ quiz(s) = Null
  /\ s.selectedAnswer = NoAnswer
  /\ s.records = <<>>
  /\ s.currentIndex = 0
  /\ s.error = <<>>

PracticeCleared(s) ==
  /\ s.phase = "setup"
  /\ s.problem = Null
  /\ s.selected = NoAnswer
  /\ s.stats = [total |-> 0, correct |-> 0]
  /\ s.error = <<>>
  /\ s.nextProblem = Null

\* C10: reset() applied to any reachable state, whatever its phase, yields the
\* cleared `setup` state, and the state right after a reset() is that state.
C10_ResetClears ==
  /\ QuizCleared(quizReset(QuizState).state)
  /\ PracticeCleared(practiceReset(PracticeState).state)
  /\ quizLastOp = "reset" => QuizCleared(QuizState)
  /\ practiceLastOp = "reset" => PracticeCleared(PracticeState)

\* reset() was pressed while a prefetch was in flight
C10_Witness ==
  /\ practiceLastOp = "reset"
  /\ prefetchRequests # {}

\* a step of the quiz handler or continuation `op` (a settling save keeps
\* quizLastOp and is told apart by the number of saves in flight)
QuizStep(op) == quizLastOp' = op /\ quizSavesInFlight' >= quizSavesInFlight
PracticeStep(op) ==
  practiceLastOp' = op /\ practiceSavesInFlight' >= practiceSavesInFlight

C12_PresentedMatchesDifficulty ==
  (practicePhase = "answering" /\ problem # Null) =>
    problem.difficulty = practiceDifficulty

\* C13 (as stated): `setup` is the initial phase and every step that leaves
\* `summary`, the challenge-again button's as well as reset's, enters `setup`.
C13_SummaryLeavesToSetup ==
  /\ quizPhase = "setup"
  /\ [][(quizPhase = "summary" /\ quizPhase' # "summary") =>
          quizPhase' = "setup"]_vars

\* C13 (amended): `setup` is the initial phase and `summary` is left only by
\* the user: by reset, which enters the cleared `setup`, or by the
\* challenge-again button, which runs startQuiz and enters `loading` directly
\* with records, position, selection and batch cleared and a new batch
\* requested for the same difficulty.
C13_SummaryLeavesByRestart ==
  /\ quizPhase = "setup"
  /\ [][(quizPhase = "summary" /\ quizPhase' # "summary") =>
          \/ /\ QuizStep("reset")
             /\ QuizCleared(QuizState')
          \/ /\ QuizStep("startQuizAgain")
             /\ quizPhase' = "loading"
             /\ records' = <<>> /\ currentIndex' = 0
             /\ selectedAnswer' = NoAnswer /\ quizzes' = <<>>
             /\ quizDifficulty' = quizDifficulty
             /\ batchRequest' # Null]_vars

\* the challenge-again button was pressed in `summary`
C13_Witness == quizLastOp = "startQuizAgain" /\ quizPhase = "loading"

\* C14: a step in which a saveQuizResult / savePracticeResult call settles,
\* with success or with failure, leaves the component's state (phase,
\* questions, selection, records / statistics, error message, prefetch slot)
\* exactly as it was, so a failed save shows no error and differs in nothing
\* from a successful one.
C14_SaveFailureInvisible ==
  [][/\ quizSavesInFlight' < quizSavesInFlight =>
          QuizState' = QuizState /\ quizError' = quizError
     /\ practiceSavesInFlight' < practiceSavesInFlight =>
          PracticeState' = PracticeState /\ practiceError' = practiceError]_vars

\* a save has failed while the answered question is on screen
C14_Witness ==
  /\ quizLastSave = "failed"
  /\ quizPhase = "result"
  /\ quizError = <<>>

\* the question is on screen: the card is rendered in these phases only
QuizPresented(s) == s.phase \in {"question", "result"} /\ quiz(s) # Null
PracticePresented(s) == s.phase \in {"answering", "result"} /\ s.problem # Null

\* saveQuizResult calls made for quiz q since the batch arrived
SavesOf(saved, q) == {i \in DOMAIN saved : saved[i].quiz_id = q.quiz_id}
RecordsOf(recs, q) == {i \in DOMAIN recs : recs[i].quiz = q}

\* C15: while a question is on screen its answer is taken once. Quiz: a
\* question has one saveQuizResult call once answered and none before, one
\* record once next was pressed and none before, and the record carries the
\* saved answer; a further handleAnswer on an answered question and a
\* nextQuestion on an unanswered one do nothing, and nextQuestion on an
\* answered one takes it off screen. Practice: every handleSelect step that
\* counts an answer makes one savePracticeResult call and adds one to
\* stats.total, no question is saved twice, and a further handleSelect on an
\* answered question does nothing.
C15_RecordedOncePerQuestion ==
  [][/\ \A i \in DOMAIN quizzes' :
          LET q == quizzes'[i]
              answered == i < currentIndex' + 1 \/
                          (i = currentIndex' + 1 /\ selectedAnswer' # NoAnswer)
              recorded == i < currentIndex' + 1 \/
                          (i = currentIndex' + 1 /\ quizPhase' = "summary")
          IN  /\ Cardinality(SavesOf(quizSaved', q)) = IF answered THEN 1 ELSE 0
              /\ Cardinality(RecordsOf(records', q)) = IF recorded THEN 1 ELSE 0
              /\ recorded => \A k \in SavesOf(quizSaved', q),
                                 r \in RecordsOf(records', q) :
                               quizSaved'[k].user_answer = records'[r].answer
     /\ (QuizPresented(QuizState') /\ selectedAnswer' # NoAnswer) =>
          /\ \A answer \in OxAnswer :
                handleAnswer(QuizState', answer) = NoOp(QuizState')
          /\ LET t == nextQuestion(QuizState').state
             IN  ~QuizPresented(t) \/ quiz(t) # quiz(QuizState')
     /\ (QuizPresented(QuizState') /\ selectedAnswer' = NoAnswer) =>
          nextQuestion(QuizState') = NoOp(QuizState')
     /\ \A i, j \in DOMAIN practiceSaved' :
          practiceSaved'[i] = practiceSaved'[j] => i = j
     /\ PracticeStep("handleSelect") =>
          /\ Len(practiceSaved') = Len(practiceSaved) + 1
          /\ practiceSaved'[Len(practiceSaved')] = problem.practice_id
          /\ stats'.total = stats.total + 1
     /\ ~PracticeStep("handleSelect") =>
          /\ practiceSaved' = practiceSaved
          /\ stats'.total = stats.total \/ PracticeStep("reset")
     /\ (PracticePresented(PracticeState') /\ selected' # NoAnswer) =>
          \A choice \in Choice :
             handleSelect(PracticeState', choice) = NoOp(PracticeState')]_vars

\* the last question was answered, saved once and recorded once
C15_Witness ==
  /\ quizPhase = "summary"
  /\ Len(quizSaved) = TOTAL_QUESTIONS
  /\ Len(records) = TOTAL_QUESTIONS
  /\ quizLastOp = "nextQuestion"
  /\ quizLastSave = "failed"

TextStep(op) == textLastOp' = op

\* C16 (as stated): a failed evaluation takes `evaluating` back to `question`
\* with the error shown and the typed answer kept, and a failed generation
\* takes the component back to the phase in which the request was made, so to
\* `result` when next() made it.
C16_FailureReturnsToOrigin ==
  [][/\ TextStep("evaluateFailed") =>
          /\ textPhase = "evaluating" /\ textPhase' = "question"
          /\ textError' # <<>>
          /\ textAnswer' = textAnswer
     /\ TextStep("generateFailed") =>
          textPhase' = textGenerateRequest.from /\ textError' # <<>>
     /\ PracticeStep("generateFailed") =>
          \A req \in generateRequests \ generateRequests' :
             practicePhase' = req.from /\ practiceError' # <<>>]_vars

\* C16 (amended): a failed evaluation takes `evaluating` back to `question`
\* with the error shown, the question and the typed answer kept and nothing
\* else changed; a failed generation, made by start or by next(), takes
\* `loading` to `setup` with the error shown; after next() the practice
\* statistics are kept, so the start button of `setup` continues the session.
C16_FailureReturnsToQuestionOrSetup ==
  [][/\ TextStep("evaluateFailed") =>
          /\ textPhase = "evaluating" /\ textPhase' = "question"
          /\ textError' # <<>>
          /\ textAnswer' = textAnswer /\ trim(textAnswer') # <<>>
          /\ textQuiz' = textQuiz /\ textQuiz' # Null
          /\ evalResult' = Null
     /\ TextStep("generateFailed") =>
          /\ textPhase = "loading" /\ textPhase' = "setup"
          /\ textError' # <<>>
          /\ textGenerateRequest.from \in {"setup", "result"}
     /\ PracticeStep("generateFailed") =>
          \A req \in generateRequests \ generateRequests' :
             /\ practicePhase = "loading" /\ practicePhase' = "setup"
             /\ practiceError' # <<>>
             /\ req.from \in {"setup", "result"}
             /\ stats' = stats
             /\ req.from = "result" => stats'.total > 0]_vars

\* a generation made by next() has failed: `setup` with answers counted
C16_Witness ==
  /\ practiceLastOp = "generateFailed"
  /\ practicePhase = "setup"
  /\ practiceError # <<>>
  /\ stats.total > 0

\* some control bound to a handler is rendered
QuizActionAvailable ==
  \/ quizPhase = "setup"
  \/ quizPhase = "question" /\ quiz(QuizState) # Null
  \/ quizPhase = "result" /\ quiz(QuizState) # Null /\ selectedAnswer # NoAnswer
  \/ quizPhase = "summary"
PracticeActionAvailable ==
  \/ practicePhase = "setup"
  \/ practicePhase \in {"answering", "result"} /\ problem # Null
TextActionAvailable ==
  \/ textPhase = "setup"
  \/ textPhase = "question" /\ textQuiz # Null
  \/ textPhase = "result" /\ evalResult # Null /\ textQuiz # Null

\* C17: an error message is on screen only where start or reset is offered,
\* and in every reachable state either some control is rendered or a request
\* is pending whose completion will render one.
C17_NoErrorFatal ==
  /\ quizError # <<>> => quizPhase = "setup"
  /\ practiceError # <<>> => practicePhase = "setup"
  /\ textError # <<>> =>
       textPhase = "setup" \/ (textPhase = "question" /\ textQuiz # Null)
  /\ tab = "quiz" =>
       QuizActionAvailable \/ batchRequest # Null \/ quizSavesInFlight > 0
  /\ tab = "practice" =>
       \/ PracticeActionAvailable
       \/ generateRequests # {} \/ prefetchRequests # {}
       \/ practiceSavesInFlight > 0
  /\ tab = "textquiz" =>
       \/ TextActionAvailable
       \/ textGenerateRequest # Null \/ evaluateRequest # Null

\* the edges of the stated machine (`answering` is `question` in the quiz);
\* reset may enter `setup` from any phase
StatedEdges ==
  {<<"setup", "loading">>, <<"loading", "answering">>, <<"loading", "setup">>,
   <<"answering", "result">>, <<"result", "loading">>,
   <<"result", "answering">>, <<"result", "summary">>}
AsStated(phase) == IF phase = "question" THEN "answering" ELSE phase

\* C18 (as stated): every phase change of the quiz and of the practice session
\* is an edge of the stated machine or a reset into `setup`.
C18_OnlyStatedEdges ==
  [][/\ quizPhase' # quizPhase =>
          \/ <<AsStated(quizPhase), AsStated(quizPhase')>> \in StatedEdges
          \/ QuizStep("reset") /\ quizPhase' = "setup"
     /\ practicePhase' # practicePhase =>
          \/ <<practicePhase, practicePhase'>> \in StatedEdges
          \/ PracticeStep("reset") /\ practicePhase' = "setup"]_vars

\* the phase changes of each component, with the handler or continuation
\* that makes them
QuizEdges ==
  {<<"setup", "loading", "startQuiz">>,
   <<"loading", "question", "startQuizDone">>,
   <<"loading", "setup", "startQuizFailed">>,
   <<"question", "result", "handleAnswer">>,
   <<"result", "question", "nextQuestion">>,
   <<"result", "summary", "nextQuestion">>,
   <<"summary", "loading", "startQuizAgain">>,
   <<"summary", "setup", "reset">>}
PracticeEdges ==
  {<<"setup", "loading", "start">>,
   <<"setup", "answering", "start">>,
   <<"loading", "answering", "generateDone">>,
   <<"loading", "setup", "generateFailed">>,
   <<"answering", "result", "handleSelect">>,
   <<"result", "loading", "next">>,
   <<"result", "answering", "next">>,
   <<"result", "setup", "reset">>}

\* C18 (amended): every phase change is one of setup->loading,
\* loading->answering, loading->setup (generation failure), answering->result,
\* result->loading/answering (next), result->summary, reset into `setup`
\* (from `summary` in the quiz, from `result` in practice), and two more:
\* summary->loading (the quiz's challenge-again button) and setup->answering
\* (practice start() taking a stored prefetched question, which happens only
\* with the slot populated).
C18_OnlyCodeEdges ==
  [][/\ quizPhase' # quizPhase =>
          <<quizPhase, quizPhase', quizLastOp'>> \in QuizEdges
     /\ practicePhase' # practicePhase =>
          /\ <<practicePhase, practicePhase', practiceLastOp'>> \in PracticeEdges
          /\ (practicePhase = "setup" /\ practicePhase' = "answering") =>
               nextProblem # Null /\ problem' = nextProblem]_vars

\* start() has taken a stored prefetched question: setup -> answering
C18_Witness ==
  /\ practiceLastOp = "start"
  /\ practicePhase = "answering"

\* C19: a step of nextQuestion in `result` (the shown question answered, so
\* Len(records) + 1 answers given) with fewer than TOTAL_QUESTIONS answers
\* adds one to currentIndex, clears selectedAnswer and puts the next question
\* on screen; with TOTAL_QUESTIONS answers it enters `summary` and keeps
\* currentIndex.
C19_NextAdvancesOrSummarises ==
  [][(quizPhase = "result" /\ QuizStep("nextQuestion")) =>
       IF Len(records) + 1 < TOTAL_QUESTIONS
         THEN /\ currentIndex' = currentIndex + 1
              /\ selectedAnswer' = NoAnswer
              /\ quizPhase' = "question"
              /\ QuizPresented(QuizState')
              /\ quiz(QuizState') = quizzes[currentIndex + 2]
         ELSE /\ quizPhase' = "summary"
              /\ currentIndex' = currentIndex]_vars

\* the fields a failed prefetch must leave alone
Visible(s) ==
  [phase |-> s.phase, problem |-> s.problem, selected |-> s.selected,
   stats |-> s.stats, error |-> s.error]

PrefetchSwallowed ==
  PracticeStep("prefetchFailed") =>
    /\ nextProblem' = Null
    /\ prefetching' = FALSE
    /\ Visible(PracticeState') = Visible(PracticeState)

\* C20 (as stated): a handleSelect step in `answering` enters `result` and
\* issues a prefetch request; a step in which a prefetch fails leaves the slot
\* empty and phase, problem, selection, statistics and error as they were.
C20_AnswerStartsPrefetch ==
  [][/\ (practicePhase = "answering" /\ PracticeStep("handleSelect")) =>
          /\ practicePhase' = "result"
          /\ issued' = issued + 1
          /\ \E req \in prefetchRequests' : req.id = issued'
     /\ PrefetchSwallowed]_vars

\* C20 (amended): a handleSelect step in `answering` enters `result` with a
\* prefetch in flight: it issues one prefetch request, unless the prefetch of
\* an earlier answer is still pending, and then it issues none; a step in
\* which a prefetch fails leaves the slot empty and phase, problem,
\* selection, statistics and error as they were.
C20_AnswerLeavesPrefetchInFlight ==
  [][/\ (practicePhase = "answering" /\ PracticeStep("handleSelect")) =>
          /\ practicePhase' = "result"
          /\ prefetching'
          /\ Cardinality(prefetchRequests') = 1
          /\ IF prefetching
               THEN prefetchRequests' = prefetchRequests /\ issued' = issued
               ELSE /\ prefetchRequests = {}
                    /\ issued' = issued + 1
                    /\ \A req \in prefetchRequests' :
                          /\ req.id = issued' /\ req.attempt = 0
                          /\ req.difficulty = practiceDifficulty
     /\ PrefetchSwallowed]_vars

\* the prefetch started by an answer has failed behind the result screen
C20_Witness ==
  /\ practiceLastOp = "prefetchFailed"
  /\ practicePhase = "result"
  /\ nextProblem = Null
  /\ practiceError = <<>>

\* C21: a failed attempt is followed by another attempt exactly when its
\* message contains the fixed text somewhere (and the retry budget is not
\* used up); the rest of the message, so the origin of the error, plays no
\* part.
C21_RetriedIffSubstring ==
  \A i \in 1..Len(outcomes) :
    "message" \in DOMAIN outcomes[i] =>
      LET retried == i < Len(outcomes) \/ retryPc = "loop"
      IN  retried <=>
            /\ includes(outcomes[i].message, CONSISTENCY_ERROR_TEXT)
            /\ i - 1 < maxRetries

\* an error whose message only contains the text was retried
C21_Witness ==
  /\ Len(outcomes) = 2
  /\ "message" \in DOMAIN outcomes[1]
  /\ outcomes[1].message = <<"x">> \o CONSISTENCY_ERROR_TEXT
  /\ retryPc = "returned"

\* C22: after the listener reported an error the list is empty; after a
\* snapshot the list has one entry per document of that snapshot, in the
\* snapshot's order, with the document's id, its title ('' when absent) and
\* its creation time (the current time when absent).
C22_ErrorEmptiesSnapshotMaps ==
  /\ lastDelivery = "error" => todos = <<>>
  /\ lastDelivery = "snapshot" =>
       /\ Len(todos) = Len(lastSnapshot)
       /\ \A i \in DOMAIN lastSnapshot :
            /\ todos[i].id = lastSnapshot[i].id
            /\ todos[i].title =
                 (IF lastSnapshot[i].title = Missing
                    THEN "" ELSE lastSnapshot[i].title)
            /\ lastSnapshot[i].createdAt # Missing =>
                 todos[i].createdAt = lastSnapshot[i].createdAt

\* the listener failed after a snapshot with documents had been shown
C22_Witness ==
  /\ lastDelivery = "error"
  /\ Len(lastSnapshot) = MaxDocs
  /\ todos = <<>>

\* what holds of a call at every moment: factory was invoked at most
\* maxRetries + 1 times, every invocation but the last failed, a success ends
\* the call with that result, and a call that threw threw the error of its
\* last invocation (the generic error when it made none)
RetryBounded ==
  /\ Len(outcomes) <= maxRetries + 1
  /\ \A i \in 1..(Len(outcomes) - 1) : "message" \in DOMAIN outcomes[i]
  /\ (outcomes # <<>> /\ "value" \in DOMAIN outcomes[Len(outcomes)]) =>
       retryPc = "returned" /\ retryValue = outcomes[Len(outcomes)]
  /\ retryPc = "returned" =>
       outcomes # <<>> /\ "value" \in DOMAIN outcomes[Len(outcomes)]
  /\ retryPc = "thrown" =>
       IF outcomes = <<>>
         THEN retryValue = DefaultError
         ELSE /\ "message" \in DOMAIN outcomes[Len(outcomes)]
              /\ retryValue = outcomes[Len(outcomes)]

\* C23: for every maxRetries and every sequence of outcomes the call ends,
\* after at most maxRetries + 1 invocations of factory, returning the first
\* successful result or else throwing the error of the last attempt.
C23_RetryTerminates == []RetryBounded /\ <>(retryPc # "loop")

\* the whole budget was used: maxRetries + 1 failed attempts
C23_Witness ==
  /\ maxRetries = MaxRetriesArg
  /\ Len(outcomes) = MaxRetriesArg + 1
  /\ retryPc = "thrown"
  /\ retryValue = outcomes[Len(outcomes)]

\* C24: in `question` and `result` the current quiz exists, the number of
\* records equals currentIndex and currentIndex is below TOTAL_QUESTIONS,
\* whatever batch the server returned.
C24_QuestionAlwaysPresent ==
  quizPhase \in {"question", "result"} =>
    /\ quiz(QuizState) # Null
    /\ Len(records) = currentIndex
    /\ currentIndex < TOTAL_QUESTIONS

\* C25: no response is put on screen twice, and a step of generate() that
\* takes the stored question empties the slot in that step and shows a
\* question that was never shown before and that no pending request can
\* deliver again.
C25_PrefetchedShownOnce ==
  [][/\ \A i, j \in DOMAIN shown' : shown'[i].id = shown'[j].id => i = j
     /\ (nextProblem # Null /\
         (PracticeStep("start") \/ PracticeStep("next"))) =>
          /\ nextProblem' = Null
          /\ problem' = nextProblem
          /\ practicePhase' = "answering"
          /\ shown' = Append(shown, [id |-> nextProblem.practice_id,
                                     prefetched |-> TRUE])
          /\ \A req \in generateRequests' \cup prefetchRequests' :
                req.id # nextProblem.practice_id]_vars

\* two prefetched questions were shown one after the other
C25_Witness ==
  /\ Len(shown) >= 3
  /\ shown[2].prefetched
  /\ shown[3].prefetched

\* C26: `prefetching` is true exactly while a prefetch request is pending;
\* only an answer raises it, only the completion (success or failure) of the
\* request lowers it, reset() changes neither the flag nor the request, and
\* an answer given when no request is pending issues a new one.
C26_PrefetchingIffOutstanding ==
  /\ (prefetching <=> prefetchRequests # {})
  /\ [][/\ prefetching' <=> prefetchRequests' # {}
        /\ Cardinality(prefetchRequests') <= 1
        /\ (prefetching' /\ ~prefetching) => PracticeStep("handleSelect")
        /\ (prefetching /\ ~prefetching') =>
              PracticeStep("prefetchDone") \/ PracticeStep("prefetchFailed")
        /\ (PracticeStep("prefetchDone") \/ PracticeStep("prefetchFailed")) =>
              ~prefetching' /\ prefetchRequests' = {}
        /\ PracticeStep("reset") =>
              prefetching' = prefetching /\ prefetchRequests' = prefetchRequests
        /\ (PracticeStep("handleSelect") /\ ~prefetching) =>
              /\ prefetching'
              /\ Cardinality(prefetchRequests') = 1]_vars

\* after a reset() an answer has started a new prefetch, which is pending
C26_Witness ==
  /\ practiceLastOp = "handleSelect"
  /\ prefetching
  /\ session > 0
  /\ \E req \in prefetchRequests : req.id > 2 /\ req.session = session

\* C27: 0 <= correct <= total always; an accepted answer adds 1 to total and
\* adds 1 to correct exactly when the chosen option is the question's correct
\* one; reset() sets both to 0; no other step changes the statistics.
C27_StatsBounded ==
  /\ 0 <= stats.correct /\ stats.correct <= stats.total
  /\ [][/\ 0 <= stats'.correct /\ stats'.correct <= stats'.total
        /\ PracticeStep("handleSelect") =>
              /\ stats'.total = stats.total + 1
              /\ stats'.correct = stats.correct +
                   (IF selected' = problem.correct THEN 1 ELSE 0)
        /\ PracticeStep("reset") => stats' = [total |-> 0, correct |-> 0]
        /\ stats' # stats =>
              PracticeStep("handleSelect") \/ PracticeStep("reset")
        /\ (stats'.total < stats.total \/ stats'.correct < stats.correct) =>
              PracticeStep("reset")]_vars

\* three answers have been counted, one of them right; the last was wrong
C27_Witness ==
  /\ practiceLastOp = "handleSelect"
  /\ stats.total = 3
  /\ stats.correct = 1
  /\ selected # problem.correct

\* C28: the step on which a generation request finally fails ends in `setup`
\* with no selection and the failure's message, and leaves statistics, stored
\* prefetched question, current question, difficulty and prefetching flag as
\* they were; an attempt that is retried changes nothing at all.
C28_FailureKeepsStatsAndSlot ==
  [][/\ PracticeStep("generateFailed") =>
          /\ practicePhase = "loading"
          /\ practicePhase' = "setup"
          /\ selected' = NoAnswer
          /\ practiceError' # <<>>
          /\ stats' = stats
          /\ nextProblem' = nextProblem
          /\ problem' = problem
          /\ practiceDifficulty' = practiceDifficulty
          /\ prefetching' = prefetching
          /\ prefetchRequests' = prefetchRequests
     /\ PracticeStep("generateRetry") => PracticeState' = PracticeState]_vars

\* a request issued by next() failed while a question that a prefetch stored
\* during the wait is in the slot
C28_Witness ==
  /\ practiceLastOp = "generateFailed"
  /\ nextProblem # Null
  /\ stats.total > 0
  /\ generateRequests = {}

\* the chat is well formed: user and assistant entries alternate, starting
\* with a user entry; a request is pending exactly while loading, which is
\* exactly when the last entry is an unanswered user message; and handleSend,
\* whatever its argument, changes nothing and calls nothing while loading or
\* when the trimmed question is empty
AskWellFormed ==
  /\ \A i \in DOMAIN messages :
        messages[i].role = IF i % 2 = 1 THEN "user" ELSE "assistant"
  /\ loading <=> askRequest # Null
  /\ loading <=> Len(messages) % 2 = 1
  /\ \A o \in Overrides :
        (loading \/ trim(IF o.given THEN o.value ELSE input) = <<>>) =>
           handleSend(AskState, o) = [state |-> AskState, calls |-> <<>>]

\* entries are only appended, one per step; an assistant entry is appended
\* exactly by the completion of the pending request, holds the answer or the
\* error text, and ends loading; a user entry holds the question sent
AskAppendsOne ==
  /\ \/ messages' = messages
     \/ /\ Len(messages') = Len(messages) + 1
        /\ SubSeq(messages', 1, Len(messages)) = messages
  /\ askLastOp' \in {"answered", "failed"} <=>
        /\ Len(messages') = Len(messages) + 1
        /\ messages'[Len(messages')].role = "assistant"
  /\ askLastOp' \in {"answered", "failed"} =>
        /\ loading /\ ~loading'
        /\ messages'[Len(messages')].content \in
              {r.answer : r \in AskResponses} \cup
              {<<"Error: ">> \o m : m \in FailureMessages}
  /\ askLastOp' \in {"enter", "click", "suggestion"} =>
        /\ ~loading /\ loading'
        /\ Len(messages') = Len(messages) + 1
        /\ messages'[Len(messages')].role = "user"
        /\ messages'[Len(messages')].content # <<>>
        /\ askRequest'.question = messages'[Len(messages')].content
  /\ askLastOp' = "ignored" => AskState' = AskState

\* C29: handleSend is a no-op while loading or when the trimmed question is
\* empty; user and assistant entries alternate; every user message gets
\* exactly one assistant message, the answer or an error text, once its request
\* settles; and loading is false again after every request.
C29_ChatAlternates ==
  /\ []AskWellFormed
  /\ [][AskAppendsOne]_vars
  /\ loading ~> ~loading
  /\ \A n \in 1..MaxQuestions :
        (Len(messages) = 2 * n - 1) ~> (Len(messages) = 2 * n)

\* two questions were sent; the first was answered, the second failed
C29_Witness ==
  /\ Len(messages) = 4
  /\ "sources" \in DOMAIN messages[2]
  /\ messages[4].content = <<"Error: ", "x">>
  /\ ~loading

\* lines of a string: the pieces between its newlines
NumLines(text) == 1 + Cardinality({i \in DOMAIN text : text[i] = "\n"})

\* the s3Upload calls so far are for the first files of the list, in order
AttemptedInOrder(log, files) ==
  /\ Len(log) <= Len(files)
  /\ \A i \in DOMAIN log : log[i].name = files[i]

\* in every state: handleUpload with an empty or missing list changes
\* nothing; a running upload has tried the files before its position, in
\* order; a finished one has left one line per file and the phase its
\* outcomes call for
UploadConsistent ==
  /\ \A files \in {Null, [items |-> <<>>]} :
        handleUpload(DataState, files) = [state |-> DataState, run |-> Null]
  /\ (upload = Null /\ uploads > 0) =>
        /\ NumLines(result) = Len(uploadLog)
        /\ uploadPhase = IF \E i \in DOMAIN uploadLog : ~uploadLog[i].ok
                           THEN "error" ELSE "done"
  /\ upload # Null =>
        /\ uploadPhase = "uploading"
        /\ Len(uploadLog) = upload.index - 1
        /\ AttemptedInOrder(uploadLog, upload.files)

====
